---- MODULE Spec2Model ----
(***************************************************************************)
(* A model of find_biomes.py: the command line front end (__main__), the   *)
(* world data service client (api_json, get_world, CACHE), the tile order  *)
(* (all_chunks_sorted_by_distance) and the tile scan (get_closest_coords). *)
(*                                                                         *)
(* Python's None is the empty tuple and a present value v is <<v>>, so     *)
(* that "is None" tests never compare values of different kinds.           *)
(* --verbose only adds progress lines to stdout and is left False.         *)
(***************************************************************************)
EXTENDS Integers, Sequences, FiniteSets, TLC

VARIABLES
    arguments,          \* docopt's result: adv_time, biome, start_coords, world
    server,             \* the world data service: mains, spawn, overview, chunks
    CACHE,              \* CACHE['all_chunks'], CACHE['world']
    net,                \* the requests sent to the data service, in order
    pc,                 \* position of the single thread of control
    biomes,             \* __main__'s biomes list
    start,              \* (start_x, start_z), None until known
    chunks_by_distance, \* list(all_chunks_sorted_by_distance(...))
    result,             \* get_closest_coords' result dict
    i,                  \* index of the loop over chunks_by_distance (1-based)
    chunk_data,         \* the blocks of the tile being scanned, row by row
    j,                  \* index of the block being scanned (1-based)
    broke,              \* the loop was left by the break of line 68
    output,             \* the result lines printed
    err                 \* the exception that ended the run, "" when none

vars == <<arguments, server, CACHE, net, pc, biomes, start, chunks_by_distance,
          result, i, chunk_data, j, broke, output, err>>

----------------------------------------------------------------------------
(* Values *)

None == <<>>

Some(v) == <<v>>

Abs(n) == IF n < 0 THEN -n ELSE n

\* Edge length of a tile, in blocks.
L == 16

\* The tolerance of the early stop, in tiles.
StopBound == 3

\* Python's // : floor division, also for negative coordinates.
FloorDivTrunc(a, b) == IF a >= 0 THEN a \div b ELSE -((-a) \div b)

FloorDiv(a, b) == a \div b

Chunk(x, z) == [x |-> x, z |-> z]

Block(x, z, biome) == [x |-> x, z |-> z, biome |-> biome]

\* The Biome enum built from biomes.json: name -> (int id, adventuringTime).
Biome == [ocean |-> <<0, FALSE>>, plains |-> <<1, TRUE>>, desert |-> <<2, TRUE>>]

\* list(Biome): the members in definition order.
BiomeList == <<"ocean", "plains", "desert">>

NotFound == [x |-> None, z |-> None, found_chunk_distance |-> None]

----------------------------------------------------------------------------
(* all_chunks_sorted_by_distance *)

\* The key of line 47: the Manhattan distance, in tiles, of a chunk to the
\* chunk that holds the start point.
ChunkDistance(chunk, start_x, start_z) ==
    Abs(chunk.x - FloorDiv(start_x, L)) + Abs(chunk.z - FloorDiv(start_z, L))

\* Lines 45-47: the defaultdict(list) after the first k chunks of the overview.
RECURSIVE GroupChunks(_, _, _, _)
GroupChunks(chunks, k, start_x, start_z) ==
    IF k = 0 THEN <<>>
    ELSE LET prev == GroupChunks(chunks, k - 1, start_x, start_z)
             d == ChunkDistance(chunks[k], start_x, start_z)
         IN  IF d \in DOMAIN prev
             THEN [prev EXCEPT ![d] = Append(@, chunks[k])]
             ELSE [e \in DOMAIN prev \cup {d} |->
                      IF e = d THEN <<chunks[k]>> ELSE prev[e]]

\* sorted(result.items()): the keys are distinct, so the order is by key.
RECURSIVE SortedKeys(_)
SortedKeys(S) ==
    IF S = {} THEN <<>>
    ELSE LET m == CHOOSE m \in S : \A n \in S : m <= n
         IN  <<m>> \o SortedKeys(S \ {m})

\* Lines 48-50: the pairs yielded for the groups of the given keys.
RECURSIVE YieldGroups(_, _)
YieldGroups(groups, keys) ==
    IF keys = <<>> THEN <<>>
    ELSE LET d == Head(keys)
         IN  [k \in 1..Len(groups[d]) |-> <<d, groups[d][k]>>]
                 \o YieldGroups(groups, Tail(keys))

all_chunks_sorted_by_distance(all_chunks, start_x, start_z) ==
    LET groups == GroupChunks(all_chunks, Len(all_chunks), start_x, start_z)
    IN  YieldGroups(groups, SortedKeys(DOMAIN groups))

----------------------------------------------------------------------------
(* get_closest_coords: the tests and the update of the loop body *)

BlockDistance(x, z, start_x, start_z) == Abs(x - start_x) + Abs(z - start_z)

\* Line 67, with a tolerance of 2 tiles.
EarlyStopBound2(res, chunk_distance) ==
    \A b \in DOMAIN res :
        /\ res[b].found_chunk_distance # None
        /\ chunk_distance > res[b].found_chunk_distance[1] + 2

\* Line 67, with any() in the place of all().
EarlyStopAny(res, chunk_distance) ==
    \E b \in DOMAIN res :
        /\ res[b].found_chunk_distance # None
        /\ chunk_distance > res[b].found_chunk_distance[1] + StopBound

\* Line 67, leaving out the biomes that have no match yet.
EarlyStopSkipNone(res, chunk_distance) ==
    \A b \in DOMAIN res :
        res[b].found_chunk_distance # None
            => chunk_distance > res[b].found_chunk_distance[1] + StopBound

\* Line 67: the condition of the break.
EarlyStop(res, chunk_distance) ==
    \A b \in DOMAIN res :
        /\ res[b].found_chunk_distance # None
        /\ chunk_distance > res[b].found_chunk_distance[1] + StopBound

\* Line 74, with <= in the place of <.
CloserOrEqual(r, block, start_x, start_z) ==
    \/ r.found_chunk_distance = None
    \/ BlockDistance(block.x, block.z, start_x, start_z)
           <= BlockDistance(r.x[1], r.z[1], start_x, start_z)

\* Line 74: the block replaces the recorded match.
Closer(r, block, start_x, start_z) ==
    \/ r.found_chunk_distance = None
    \/ BlockDistance(block.x, block.z, start_x, start_z)
           < BlockDistance(r.x[1], r.z[1], start_x, start_z)

\* Lines 72-79: the result dict after one block.
UpdateResult(res, chunk_distance, block, start_x, start_z) ==
    IF /\ block.biome \in DOMAIN res
       /\ Closer(res[block.biome], block, start_x, start_z)
    THEN [res EXCEPT ![block.biome] =
              [found_chunk_distance |-> Some(chunk_distance),
               x |-> Some(block.x),
               z |-> Some(block.z)]]
    ELSE res

----------------------------------------------------------------------------
(* __main__: the choice of the biomes *)

\* The biomes whose adventuringTime attribute is true (line 96).
AdvTimeBiomes == SelectSeq(BiomeList, LAMBDA b : Biome[b][2])

\* Biome[biome_str] of line 98 finds a member, for any string.
KnownBiomeAny(biome_str) == TRUE

\* Biome[biome_str] of line 98 finds a member; a KeyError otherwise.
KnownBiome(biome_str) == biome_str \in DOMAIN Biome

\* Lines 95-100: the if of line 95 has no else, and the if/else of lines
\* 97-100 assigns biomes again on both of its branches.
SelectBiomes(args) ==
    LET after_95 == IF args.adv_time THEN AdvTimeBiomes ELSE <<>>
        after_97 == IF args.biome # <<>> THEN args.biome ELSE BiomeList
    IN  after_97

----------------------------------------------------------------------------
(* api_json, get_world *)

Request(kind, x, z) == [kind |-> kind, x |-> x, z |-> z]

WorldsRequest == Request("worlds.json", 0, 0)

LevelRequest == Request("level.json", 0, 0)

OverviewRequest == Request("overview.json", 0, 0)

\* The path of line 69, with the x coordinate in both places.
ChunkRequestXX(chunk) == Request("chunk", chunk.x, chunk.x)

\* The path of line 69.
ChunkRequest(chunk) == Request("chunk", chunk.x, chunk.z)

\* get_world asks the service: no --world option, nothing cached yet.
NeedWorld(args, cache) == ~args.world /\ cache.world = None

\* The requests one call of api_json sends.
ApiRequests(args, cache, request) ==
    IF NeedWorld(args, cache) THEN <<WorldsRequest, request>> ELSE <<request>>

\* CACHE after a call of api_json (line 90).
CacheAfterApi(args, cache) ==
    IF NeedWorld(args, cache) THEN [cache EXCEPT !.world = Some("main")]
    ELSE cache

\* more_itertools.one of line 90 finds exactly one main world.
WorldResolves(args, cache, srv) == NeedWorld(args, cache) => srv.mains = 1

----------------------------------------------------------------------------
(* The inputs: command lines and worlds *)

\* The longest chunks overview.
MaxChunks == 3

Range(seq) == {seq[k] : k \in DOMAIN seq}

SeqsUpTo(S, n) == UNION {[1..m -> S] : m \in 0..n}

\* The chunks the service may know.
ChunkUniverse == {Chunk(0, 0), Chunk(-1, -1), Chunk(2, 3)}

\* Start points, in the chunks (0,0) and (-1,0).
StartPoints == {<<15, 15>>, <<-1, 15>>}

\* What a chunk may hold: its blocks of interest, as offsets in the chunk.
Patterns ==
    << <<>>,
       <<Block(0, 0, "plains")>>,
       <<Block(15, 15, "plains")>>,
       <<Block(0, 0, "desert")>>,
       <<Block(0, 15, "plains"), Block(15, 0, "plains")>> >>

\* The blocks of a chunk: every block lies inside its chunk.
BlocksOf(chunk, pattern) ==
    [k \in DOMAIN pattern |->
        Block(L * chunk.x + pattern[k].x, L * chunk.z + pattern[k].z,
              pattern[k].biome)]

\* The longest chunks overview of the runs checked for termination.
MaxChunksFair == 1

\* The worlds with an overview of at most n entries.
Worlds(n) ==
    UNION {
        { [mains |-> 1, spawn |-> <<15, 15>>, overview |-> ov,
           chunks |-> [c \in ChunkUniverse |->
                          IF c \in Range(ov) THEN BlocksOf(c, Patterns[pat[c]])
                          ELSE <<>>]] :
            pat \in [Range(ov) -> DOMAIN Patterns] } :
        ov \in SeqsUpTo(ChunkUniverse, n) }

\* The worlds of the command line runs.
SmallWorlds ==
    { [mains |-> m, spawn |-> sp, overview |-> ov,
       chunks |-> [c \in ChunkUniverse |-> BlocksOf(c, Patterns[2])]] :
        m \in 0..2, sp \in {<<-1, 15>>},
        ov \in {<<Chunk(0, 0)>>, <<Chunk(2, 3), Chunk(-1, -1)>>} }

BiomeStrings == {"plains", "desert", "nether"}

CommandLines ==
    { [adv_time |-> FALSE, biome |-> bs, start_coords |-> sc, world |-> w] :
        bs \in SeqsUpTo(BiomeStrings, 2), sc \in StartPoints \cup {None},
        w \in BOOLEAN }
    \cup
    { [adv_time |-> TRUE, biome |-> <<>>, start_coords |-> sc, world |-> w] :
        sc \in StartPoints \cup {None}, w \in BOOLEAN }

SearchCommandLines ==
    { [adv_time |-> FALSE, biome |-> bs, start_coords |-> sc, world |-> TRUE] :
        bs \in {<<"plains">>, <<"plains", "desert">>}, sc \in StartPoints }

----------------------------------------------------------------------------
(* The program *)

\* The state at the start of __main__, for worlds of at most n chunks.
InitWith(n) ==
    /\ \/ arguments \in CommandLines /\ server \in SmallWorlds
       \/ arguments \in SearchCommandLines /\ server \in Worlds(n)
    /\ CACHE = [all_chunks |-> None, world |-> None]
    /\ net = <<>>
    /\ pc = "main"
    /\ biomes = <<>>
    /\ start = None
    /\ chunks_by_distance = <<>>
    /\ result = <<>>
    /\ i = 0
    /\ chunk_data = <<>>
    /\ j = 0
    /\ broke = FALSE
    /\ output = <<>>
    /\ err = ""

Init == InitWith(MaxChunks)

\* The request the program sends next, None when the next step sends none.
NextRequest ==
    IF pc = "start_coords" /\ arguments.start_coords = None THEN Some(LevelRequest)
    ELSE IF pc = "get_closest_coords" /\ CACHE.all_chunks = None
         THEN Some(OverviewRequest)
    ELSE IF /\ pc = "loop"
            /\ i <= Len(chunks_by_distance)
            /\ ~EarlyStop(result, chunks_by_distance[i][1])
         THEN Some(ChunkRequest(chunks_by_distance[i][2]))
    ELSE None

\* api_json returns: the world resolves and the response is a success.
ApiCall(request) ==
    /\ WorldResolves(arguments, CACHE, server)
    /\ net' = net \o ApiRequests(arguments, CACHE, request)

\* Lines 94-100, a biome string that is no member of Biome: KeyError.
UnknownBiome ==
    /\ pc = "main"
    /\ arguments.biome # <<>>
    /\ \E k \in DOMAIN arguments.biome : ~KnownBiome(arguments.biome[k])
    /\ err' = "KeyError@98"
    /\ pc' = "exit"
    /\ UNCHANGED <<arguments, server, CACHE, net, biomes, start,
                   chunks_by_distance, result, i, chunk_data, j, broke, output>>

\* Lines 94-100.
ParseArguments ==
    /\ pc = "main"
    /\ arguments.biome # <<>>
           => \A k \in DOMAIN arguments.biome : KnownBiome(arguments.biome[k])
    /\ biomes' = SelectBiomes(arguments)
    /\ pc' = "start_coords"
    /\ UNCHANGED <<arguments, server, CACHE, net, start, chunks_by_distance,
                   result, i, chunk_data, j, broke, output, err>>

\* Lines 101-102: --start-coords.
StartFromOption ==
    /\ pc = "start_coords"
    /\ arguments.start_coords # None
    /\ start' = arguments.start_coords
    /\ pc' = "get_closest_coords"
    /\ UNCHANGED <<arguments, server, CACHE, net, biomes, chunks_by_distance,
                   result, i, chunk_data, j, broke, output, err>>

\* Lines 103-112: the world spawn of level.json.
StartFromLevel ==
    /\ pc = "start_coords"
    /\ arguments.start_coords = None
    /\ ApiCall(LevelRequest)
    /\ CACHE' = CacheAfterApi(arguments, CACHE)
    /\ start' = server.spawn
    /\ pc' = "get_closest_coords"
    /\ UNCHANGED <<arguments, server, biomes, chunks_by_distance, result, i,
                   chunk_data, j, broke, output, err>>

\* Lines 58-62, with lines 37-50: the overview, the chunk order, the result.
StartSearch ==
    /\ pc = "get_closest_coords"
    /\ IF CACHE.all_chunks = None
       THEN /\ ApiCall(OverviewRequest)
            /\ CACHE' = [CacheAfterApi(arguments, CACHE)
                            EXCEPT !.all_chunks = Some(server.overview)]
       ELSE UNCHANGED <<net, CACHE>>
    /\ chunks_by_distance' =
           all_chunks_sorted_by_distance(CACHE'.all_chunks[1], start[1], start[2])
    /\ result' = [b \in Range(biomes) |-> NotFound]
    /\ i' = 1
    /\ pc' = "loop"
    /\ UNCHANGED <<arguments, server, biomes, start, chunk_data, j, broke,
                   output, err>>

\* Line 63: the chunks are exhausted.
LoopExhausted ==
    /\ pc = "loop"
    /\ i > Len(chunks_by_distance)
    /\ pc' = "print"
    /\ UNCHANGED <<arguments, server, CACHE, net, biomes, start,
                   chunks_by_distance, result, i, chunk_data, j, broke, output,
                   err>>

\* Lines 67-68: the break.
Break ==
    /\ pc = "loop"
    /\ i <= Len(chunks_by_distance)
    /\ EarlyStop(result, chunks_by_distance[i][1])
    /\ broke' = TRUE
    /\ pc' = "print"
    /\ UNCHANGED <<arguments, server, CACHE, net, biomes, start,
                   chunks_by_distance, result, i, chunk_data, j, output, err>>

\* The service's answer to a chunk request.
ChunkResponse(request) ==
    LET chunk == Chunk(request.x, request.z)
    IN  IF chunk \in DOMAIN server.chunks THEN server.chunks[chunk] ELSE <<>>

\* Line 69: the blocks of the next chunk.
FetchChunk ==
    /\ pc = "loop"
    /\ i <= Len(chunks_by_distance)
    /\ ~EarlyStop(result, chunks_by_distance[i][1])
    /\ LET request == ChunkRequest(chunks_by_distance[i][2])
       IN  /\ ApiCall(request)
           /\ chunk_data' = ChunkResponse(request)
    /\ CACHE' = CacheAfterApi(arguments, CACHE)
    /\ IF chunk_data' = <<>>
       THEN i' = i + 1 /\ j' = 0 /\ pc' = "loop"
       ELSE i' = i /\ j' = 1 /\ pc' = "cells"
    /\ UNCHANGED <<arguments, server, biomes, start, chunks_by_distance, result,
                   broke, output, err>>

\* Lines 70-79: one block of the chunk.
ScanBlock ==
    /\ pc = "cells"
    /\ result' = UpdateResult(result, chunks_by_distance[i][1], chunk_data[j],
                              start[1], start[2])
    /\ IF j = Len(chunk_data)
       THEN i' = i + 1 /\ j' = 0 /\ pc' = "loop"
       ELSE i' = i /\ j' = j + 1 /\ pc' = "cells"
    /\ UNCHANGED <<arguments, server, CACHE, net, biomes, start,
                   chunks_by_distance, chunk_data, broke, output, err>>

\* The line of line 116 or 119.
ResultLine(biome, r) ==
    IF r = None THEN [biome |-> biome, found |-> FALSE]
    ELSE [biome |-> biome, found |-> TRUE]

\* Lines 114-119: the first iteration of the loop over the biomes.  result[biome]
\* is the dict of line 60 or 75, never None, so line 118 runs: unpacking the
\* result dict into x, z raises ValueError unless it has two keys, and with two
\* keys x and z are Biome members and the subtraction of line 119 raises
\* TypeError.
PrintResults ==
    /\ pc = "print"
    /\ IF biomes = <<>>
       THEN err' = "" /\ output' = output
       ELSE IF result[biomes[1]] = None
            THEN err' = "" /\ output' = Append(output, ResultLine(biomes[1], None))
            ELSE /\ output' = output
                 /\ err' = IF Cardinality(DOMAIN result) = 2
                           THEN "TypeError@119" ELSE "ValueError@118"
    /\ pc' = "exit"
    /\ UNCHANGED <<arguments, server, CACHE, net, biomes, start,
                   chunks_by_distance, result, i, chunk_data, j, broke>>

\* Lines 54, 89: raise_for_status, the request gets an error status.
ApiFail ==
    /\ NextRequest # None
    /\ WorldResolves(arguments, CACHE, server)
    /\ net' = net \o ApiRequests(arguments, CACHE, NextRequest[1])
    /\ CACHE' = CacheAfterApi(arguments, CACHE)
    /\ err' = "HTTPError@54"
    /\ pc' = "exit"
    /\ UNCHANGED <<arguments, server, biomes, start, chunks_by_distance, result,
                   i, chunk_data, j, broke, output>>

\* Line 90: more_itertools.one, not exactly one main world.
WorldFail ==
    /\ NextRequest # None
    /\ ~WorldResolves(arguments, CACHE, server)
    /\ net' = Append(net, WorldsRequest)
    /\ err' = "ValueError@90"
    /\ pc' = "exit"
    /\ UNCHANGED <<arguments, server, CACHE, biomes, start, chunks_by_distance,
                   result, i, chunk_data, j, broke, output>>

Next ==
    \/ UnknownBiome
    \/ ParseArguments
    \/ StartFromOption
    \/ StartFromLevel
    \/ StartSearch
    \/ LoopExhausted
    \/ Break
    \/ FetchChunk
    \/ ScanBlock
    \/ PrintResults
    \/ ApiFail
    \/ WorldFail

Spec == Init /\ [][Next]_vars

\* The scheduling of a sequential program: it takes its next step.
FairSpec == InitWith(MaxChunksFair) /\ [][Next]_vars /\ WF_vars(Next)

----------------------------------------------------------------------------
(* The pure form of the scan, for any set of requested biomes *)

\* Lines 70-79: the result dict after the blocks m.. of a chunk.
RECURSIVE ScanBlocksFrom(_, _, _, _, _, _)
ScanBlocksFrom(res, chunk_distance, blocks, m, start_x, start_z) ==
    IF m > Len(blocks) THEN res
    ELSE ScanBlocksFrom(
             UpdateResult(res, chunk_distance, blocks[m], start_x, start_z),
             chunk_distance, blocks, m + 1, start_x, start_z)

\* Lines 63-79: the result dict after the loop, entered at chunk k.
RECURSIVE ScanChunksFrom(_, _, _, _, _, _)
ScanChunksFrom(res, chunks, k, srv, start_x, start_z) ==
    IF k > Len(chunks) THEN res
    ELSE IF EarlyStop(res, chunks[k][1]) THEN res
    ELSE ScanChunksFrom(
             ScanBlocksFrom(res, chunks[k][1], srv.chunks[chunks[k][2]], 1,
                            start_x, start_z),
             chunks, k + 1, srv, start_x, start_z)

\* Lines 57-82 for the given biomes.
get_closest_coords(biome_set, srv, start_x, start_z) ==
    ScanChunksFrom([b \in biome_set |-> NotFound],
                   all_chunks_sorted_by_distance(srv.overview, start_x, start_z),
                   1, srv, start_x, start_z)

----------------------------------------------------------------------------
(* Properties *)

\* get_closest_coords has returned (line 113 is done).
SearchReturned ==
    \/ pc = "print"
    \/ pc = "exit" /\ err \in {"", "ValueError@118", "TypeError@119"}

\* The chunk coordinate of a block coordinate: the q with L*q <= v < L*q + L.
ChunkCoordOf(v) == CHOOSE q \in -8..8 : L * q <= v /\ v < L * q + L

\* The distance, in chunks, of a chunk to the chunk of the start point.
TileDistance(chunk) ==
    Abs(chunk.x - ChunkCoordOf(start[1])) + Abs(chunk.z - ChunkCoordOf(start[2]))

\* The Manhattan distance of a block coordinate to the start point.
CellDistance(x, z) == Abs(x - start[1]) + Abs(z - start[2])

\* The positions <<k, m>> of the blocks of biome b, over all chunks in scan order.
BlocksOfBiome(b) ==
    {<<k, m>> \in (DOMAIN chunks_by_distance) \X (1..2) :
        /\ m <= Len(server.chunks[chunks_by_distance[k][2]])
        /\ server.chunks[chunks_by_distance[k][2]][m].biome = b}

BlockAt(pos) == server.chunks[chunks_by_distance[pos[1]][2]][pos[2]]

\* The answer of a scan of all chunks: the block of biome b of minimum distance
\* to the start, the first in scan order among equals.
ExhaustiveBest(b) ==
    IF BlocksOfBiome(b) = {} THEN NotFound
    ELSE LET Before(p, q) == p[1] < q[1] \/ (p[1] = q[1] /\ p[2] <= q[2])
             D(p) == CellDistance(BlockAt(p).x, BlockAt(p).z)
             best == CHOOSE p \in BlocksOfBiome(b) :
                        \A q \in BlocksOfBiome(b) :
                            D(p) < D(q) \/ (D(p) = D(q) /\ Before(p, q))
         IN  [found_chunk_distance |-> Some(chunks_by_distance[best[1]][1]),
              x |-> Some(BlockAt(best).x),
              z |-> Some(BlockAt(best).z)]

\* C1: when get_closest_coords has returned, by the break or at the end of the
\* chunks, the result of every requested biome is the answer of a scan of all
\* chunks in the same order: the block of minimum Manhattan distance to the start.
C1_EarlyStopSound ==
    SearchReturned => \A b \in DOMAIN result : result[b] = ExhaustiveBest(b)

\* The scan broke while a chunk that holds a requested biome was still unscanned.
C1_Witness ==
    /\ pc = "print"
    /\ broke
    /\ \E p \in UNION {BlocksOfBiome(b) : b \in DOMAIN result} : p[1] >= i

\* C5: the chunk order holds every overview entry exactly once, paired with its
\* distance |x - floor(start_x/16)| + |z - floor(start_z/16)|, in non-decreasing
\* distance, the entries of one distance in their overview order.
C5_ChunkOrder ==
    (CACHE.all_chunks # None /\ pc # "get_closest_coords") =>
        LET ov == CACHE.all_chunks[1]
            cbd == chunks_by_distance
            yielded == [k \in DOMAIN cbd |-> cbd[k][2]]
            start_chunk_x == ChunkCoordOf(start[1])
            start_chunk_z == ChunkCoordOf(start[2])
            Dist(c) == Abs(c.x - start_chunk_x) + Abs(c.z - start_chunk_z)
        IN  /\ Len(cbd) = Len(ov)
            /\ \A k \in DOMAIN cbd : cbd[k][1] = Dist(cbd[k][2])
            /\ \A k \in DOMAIN cbd : k < Len(cbd) => cbd[k][1] <= cbd[k + 1][1]
            /\ \A d \in {Dist(c) : c \in Range(ov)} :
                   SelectSeq(yielded, LAMBDA c : Dist(c) = d)
                       = SelectSeq(ov, LAMBDA c : Dist(c) = d)

\* A negative start coordinate, three overview entries with two different chunks
\* of one distance, and an order that differs from the overview's.
C5_Witness ==
    /\ pc = "loop"
    /\ start[1] < 0
    /\ Len(chunks_by_distance) = MaxChunks
    /\ \E k, l \in DOMAIN chunks_by_distance :
           /\ k < l
           /\ chunks_by_distance[k][1] = chunks_by_distance[l][1]
           /\ chunks_by_distance[k][2] # chunks_by_distance[l][2]
    /\ [k \in DOMAIN chunks_by_distance |-> chunks_by_distance[k][2]]
           # CACHE.all_chunks[1]

\* C8: the result of every requested biome is the result of a search for that
\* biome alone, on the same world and from the same start.
C8_IndependentBiomes ==
    SearchReturned =>
        \A b \in DOMAIN result :
            result[b] = get_closest_coords({b}, server, start[1], start[2])[b]

\* Two biomes requested, both found, in different chunks.
C8_Witness ==
    /\ pc = "print"
    /\ Cardinality(DOMAIN result) = 2
    /\ \A b \in DOMAIN result : result[b].found_chunk_distance # None
    /\ \E b, c \in DOMAIN result :
           result[b].found_chunk_distance # result[c].found_chunk_distance

\* The condition of the break as the code has it, on the current state.
StopsHere ==
    \A b \in DOMAIN result :
        /\ result[b].found_chunk_distance # None
        /\ chunks_by_distance[i][1] > result[b].found_chunk_distance[1] + 3

\* The condition with the biomes that have no match left out of the test.
StopsHereFoundOnly ==
    \A b \in DOMAIN result :
        result[b].found_chunk_distance # None
            => chunks_by_distance[i][1] > result[b].found_chunk_distance[1] + 3

\* C9 as stated: at a chunk, before its fetch, the scan stops exactly when every
\* requested biome that has a match satisfies chunk_distance > found + 3, the
\* biomes without a match taking no part in the test.
C9_AsStated ==
    [][(pc = "loop" /\ i <= Len(chunks_by_distance))
          => (broke' <=> StopsHereFoundOnly)]_vars

\* C9, amended: at a chunk, before its fetch, the scan stops exactly when every
\* requested biome has a match and satisfies chunk_distance > found + 3; a
\* requested biome without a match keeps the scan going.
C9_StopTest ==
    [][(pc = "loop" /\ i <= Len(chunks_by_distance))
          => (broke' <=> StopsHere)]_vars

\* At a chunk more than 3 beyond the match of one biome, with another requested
\* biome unmatched, the chunk has been fetched: the scan went on.
C9_Witness ==
    /\ pc = "cells"
    /\ ~broke
    /\ \E b \in DOMAIN result : result[b].found_chunk_distance = None
    /\ \E b \in DOMAIN result :
           /\ result[b].found_chunk_distance # None
           /\ chunks_by_distance[i][1] > result[b].found_chunk_distance[1] + 3

\* The recorded match of biome b is a block of b that a chunk of the overview
\* holds, and found_chunk_distance is the distance of that chunk.
RecordedInItsChunk(r, b) ==
    r.found_chunk_distance # None =>
        LET chunk == Chunk(ChunkCoordOf(r.x[1]), ChunkCoordOf(r.z[1]))
        IN  /\ chunk \in Range(server.overview)
            /\ Block(r.x[1], r.z[1], b) \in Range(server.chunks[chunk])
            /\ r.found_chunk_distance[1] = TileDistance(chunk)

\* A step of the scan replaces the recorded match of a biome only by the block
\* at hand, of that biome and strictly closer to the start (or the first match).
MonotoneStep ==
    pc \in {"loop", "cells", "print"} =>
        /\ DOMAIN result' = DOMAIN result
        /\ (pc # "cells" => result' = result)
        /\ \A b \in DOMAIN result :
            LET old == result[b]
                new == result'[b]
            IN  /\ new # old =>
                    /\ pc = "cells"
                    /\ chunk_data[j].biome = b
                    /\ new.x = Some(chunk_data[j].x)
                    /\ new.z = Some(chunk_data[j].z)
                    /\ old.found_chunk_distance # None =>
                           CellDistance(new.x[1], new.z[1])
                               < CellDistance(old.x[1], old.z[1])
                /\ old.found_chunk_distance # None =>
                    /\ new.found_chunk_distance # None
                    /\ CellDistance(new.x[1], new.z[1])
                           <= CellDistance(old.x[1], old.z[1])
                /\ RecordedInItsChunk(new, b)

\* C10: a step of the scan replaces the recorded match of a biome only by the
\* block at hand, of that biome and strictly closer to the start (or the first
\* match); a match is never reset, its distance never grows, and its
\* found_chunk_distance is the distance of the chunk that holds the block.
C10_MonotoneBest == [][MonotoneStep]_vars

\* A chunk with two blocks of one biome at equal distance has been scanned, and
\* the first of them is the recorded match.
C10_Witness ==
    /\ pc = "loop"
    /\ Len(chunk_data) = 2
    /\ chunk_data[1].biome = chunk_data[2].biome
    /\ chunk_data[1].biome \in DOMAIN result
    /\ CellDistance(chunk_data[1].x, chunk_data[1].z)
           = CellDistance(chunk_data[2].x, chunk_data[2].z)
    /\ result[chunk_data[1].biome].x = Some(chunk_data[1].x)
    /\ result[chunk_data[1].biome].z = Some(chunk_data[1].z)

\* The number of entries of a sequence that satisfy a test.
Count(seq, Test(_)) == Len(SelectSeq(seq, Test))

\* C2 as stated: a run whose search completes without a fetch or validation
\* error prints one line per requested biome, "not found" or the coordinates of
\* the match, and exits 0.
C2_OneLinePerBiome ==
    (pc = "exit" /\ err \notin {"KeyError@98", "HTTPError@54", "ValueError@90"}) =>
        /\ err = ""
        /\ Len(output) = Len(biomes)
        /\ \A k \in DOMAIN output :
               /\ output[k].biome \in Range(biomes)
               /\ output[k].found
                      = (result[output[k].biome].found_chunk_distance # None)

\* C3 as stated: with adv-time the biomes searched are those whose
\* adventuringTime attribute is true; with biome arguments, those biomes; with
\* neither, all biomes.
C3_BiomesSearched ==
    (pc \notin {"main"} /\ err # "KeyError@98") =>
        Range(biomes) =
            IF arguments.adv_time THEN {b \in DOMAIN Biome : Biome[b][2]}
            ELSE IF arguments.biome # <<>> THEN Range(arguments.biome)
            ELSE DOMAIN Biome

\* No block of any chunk of the overview has biome b.
AbsentFromWorld(b) ==
    \A c \in Range(server.overview) :
        \A m \in DOMAIN server.chunks[c] : server.chunks[c][m].biome # b

\* With a requested biome that the world does not hold: no match is recorded,
\* the break is not taken, and at the return every chunk has been fetched.
AbsentBiomeScan ==
    \A b \in DOMAIN result :
        AbsentFromWorld(b) =>
            /\ result[b] = NotFound
            /\ ~broke
            /\ SearchReturned =>
                   /\ i = Len(server.overview) + 1
                   /\ \A c \in Range(server.overview) :
                          Count(net, LAMBDA r : r = Request("chunk", c.x, c.z))
                              = Count(server.overview, LAMBDA o : o = c)

\* C4: when a requested biome occurs in no block of any chunk of the overview,
\* its result is not found, the break never fires, every chunk is scanned, and
\* the scan ends: get_closest_coords returns unless the service fails a request.
C4_AbsentBiome ==
    /\ []AbsentBiomeScan
    /\ (pc = "loop" /\ \E b \in DOMAIN result : AbsentFromWorld(b))
           ~> (SearchReturned \/ err = "HTTPError@54")

\* The search returned: one requested biome is absent from the world, another has
\* a match, and the last chunk lies more than 3 beyond that match.
C4_Witness ==
    /\ pc = "print"
    /\ chunks_by_distance # <<>>
    /\ \E b \in DOMAIN result : AbsentFromWorld(b)
    /\ \E b \in DOMAIN result :
           /\ result[b].found_chunk_distance # None
           /\ chunks_by_distance[Len(chunks_by_distance)][1]
                  > result[b].found_chunk_distance[1] + 3

C7_UnknownBiome ==
    (pc # "main" /\ \E k \in DOMAIN arguments.biome :
                        arguments.biome[k] \notin DOMAIN Biome) =>
        /\ pc = "exit"
        /\ err = "KeyError@98"
        /\ net = <<>>
        /\ output = <<>>

\* The run ended in the KeyError, for a command line that also names a known
\* biome and has no --start-coords and no --world.
C7_Witness ==
    /\ err = "KeyError@98"
    /\ \E k \in DOMAIN arguments.biome : arguments.biome[k] \in DOMAIN Biome
    /\ arguments.start_coords = None
    /\ ~arguments.world

====
